---- MODULE Spec2Model ----
(***************************************************************************)
(* Model of the fitness-studio booking backend (studio/models.py,          *)
(* studio/serializers.py, studio/views.py).                                *)
(*                                                                         *)
(* The store holds three tables, FitnessClass, Client and Booking; a row's *)
(* id is its position in the table (ids are assigned 1, 2, ... and no view *)
(* deletes a row).  A booking request is a process that walks through the  *)
(* store calls of BookingSerializer.validate and BookingSerializer.create  *)
(* one call per step, so that requests interleave between store calls, as  *)
(* they do when two workers serve POST /book/ at the same time.  The three *)
(* list/create views are single store calls and are one step each.         *)
(*                                                                         *)
(* Three specifications share these actions: Spec is the write path under  *)
(* concurrency, SpecBookings adds the listing of bookings to requests that *)
(* are served one at a time, and SpecClasses is the class catalogue, its   *)
(* listing and the clock.                                                  *)
(***************************************************************************)
EXTENDS Integers, Sequences, FiniteSets

\* ---------------------------------------------------------------- bounds
MaxRequests == 2      \* booking requests in one run
MaxClasses  == 1      \* FitnessClass rows created while bookings are made
MaxSlots    == 2      \* largest available_slots a class is created with
MaxTime     == 1      \* the clock and start_time range over 0..MaxTime
MaxListed   == 2      \* FitnessClass rows in the catalogue that is listed

Requests == 1..MaxRequests
Names    == {"Alice", "Bob"}
Emails   == {"alice@example.com", "bob@example.com"}

\* error messages of the booking endpoint
ERR_REQUIRED  == "class_id is required."
ERR_NO_CLASS  == "Fitness class does not exist."
ERR_NO_SLOTS  == "No slots available."
ERR_INTEGRITY == "IntegrityError"

VARIABLES
    classes,        \* FitnessClass table: Seq of [available_slots, start_time]
    clients,        \* Client table: Seq of [name, email]
    bookings,       \* Booking table: Seq of [fitness_class, client]
    requests,       \* booking request r -> its position and local variables
    now,            \* timezone.now()
    response,       \* what the last list / create-class view returned
    initial_slots   \* history: available_slots each class was created with

vars == <<classes, clients, bookings, requests, now, response, initial_slots>>
store == <<classes, clients, bookings>>

\* ------------------------------------------------------------ the models
\* (variant for C2: a plain IntegerField column, without the constraint)
SlotsAnyInteger(v) == TRUE

\* models.py: available_slots = models.PositiveIntegerField(): the column
\* carries the CHECK (available_slots >= 0) constraint, which a write of a
\* negative value violates (IntegrityError).
PositiveIntegerField(v) == v >= 0

\* CreateFitnessClassSerializer: the serializer field built from the model
\* field validates available_slots with min_value = 0.
available_slots_is_valid(v) == v >= 0

\* models.py: email = models.EmailField(unique=True): an INSERT of an email
\* already in the table raises IntegrityError (UniqueViolation).
EmailTaken(email) == \E i \in DOMAIN clients : clients[i].email = email

\* (variant for C5: the column without unique=True)
UniqueNever(email) == FALSE

UniqueViolation(email) == EmailTaken(email)

ClientByEmail(email) == CHOOSE i \in DOMAIN clients : clients[i].email = email

ClassExists(id) == id \in DOMAIN classes

\* ----------------------------------------------------- booking requests
IdleRequest ==
    [pc |-> "idle", has_class_id |-> FALSE, class_id |-> 0,
     client_name |-> "", client_email |-> "",
     fitness_class |-> 0,       \* local fitness_class.available_slots
     client |-> 0, created |-> FALSE, booking |-> 0, error |-> ""]

Fail(r, msg) ==
    requests' = [requests EXCEPT ![r].pc = "failed", ![r].error = msg]

\* serializers.py validate: `if not class_id`
NotClassId(present, class_id) == ~present \/ class_id = 0

\* (variant for C4: the comparison written `< 0`)
NoSlotsMut(slots) == slots < 0

\* serializers.py validate: `fitness_class.available_slots <= 0`
NoSlots(slots) == slots <= 0

\* POST /book/: field validation (class_id required) and
\* BookingSerializer.validate, one read of the FitnessClass table.
validate(r, present, class_id, name, email) ==
    /\ requests[r].pc = "idle"
    /\ \A q \in Requests : q < r => requests[q].pc # "idle"
    /\ LET req == [requests[r] EXCEPT !.has_class_id = present,
                                      !.class_id = class_id,
                                      !.client_name = name,
                                      !.client_email = email]
       IN  requests' = [requests EXCEPT ![r] =
             IF NotClassId(present, class_id)
               THEN [req EXCEPT !.pc = "failed", !.error = ERR_REQUIRED]
             ELSE IF ~ClassExists(class_id)
               THEN [req EXCEPT !.pc = "failed", !.error = ERR_NO_CLASS]
             ELSE IF NoSlots(classes[class_id].available_slots)
               THEN [req EXCEPT !.pc = "failed", !.error = ERR_NO_SLOTS]
             ELSE [req EXCEPT !.pc = "validated"]]
    /\ UNCHANGED <<classes, clients, bookings, now, response, initial_slots>>

\* create, line 175: fitness_class = FitnessClass.objects.get(id=class_id)
create_get_class(r) ==
    /\ requests[r].pc = "validated"
    /\ requests' = [requests EXCEPT
            ![r].pc = "fetched",
            ![r].fitness_class = classes[requests[r].class_id].available_slots]
    /\ UNCHANGED <<classes, clients, bookings, now, response, initial_slots>>

\* create, line 179: Client.objects.get_or_create, its lookup
create_get_client(r) ==
    /\ requests[r].pc = "fetched"
    /\ requests' = [requests EXCEPT ![r] =
          IF EmailTaken(requests[r].client_email)
            THEN [@ EXCEPT !.pc = "have_client",
                           !.client = ClientByEmail(requests[r].client_email),
                           !.created = FALSE]
            ELSE [@ EXCEPT !.pc = "creating"]]
    /\ UNCHANGED <<classes, clients, bookings, now, response, initial_slots>>

\* create, line 179: get_or_create, its INSERT after the lookup found no
\* row; a unique violation is caught and the row is fetched instead.
create_insert_client(r) ==
    /\ requests[r].pc = "creating"
    /\ IF UniqueViolation(requests[r].client_email)
         THEN /\ requests' = [requests EXCEPT
                    ![r].pc = "have_client",
                    ![r].client = ClientByEmail(requests[r].client_email),
                    ![r].created = FALSE]
              /\ UNCHANGED clients
         ELSE /\ clients' = Append(clients,
                    [name |-> requests[r].client_name,
                     email |-> requests[r].client_email])
              /\ requests' = [requests EXCEPT
                    ![r].pc = "have_client",
                    ![r].client = Len(clients) + 1,
                    ![r].created = TRUE]
    /\ UNCHANGED <<classes, bookings, now, response, initial_slots>>

\* create, lines 188-189: fitness_class.available_slots -= 1;
\* fitness_class.save() writes the local value; the CHECK constraint of the
\* column rejects a negative one and the request ends in a server error.
create_save(r) ==
    /\ requests[r].pc = "have_client"
    /\ LET slots == requests[r].fitness_class - 1
           id    == requests[r].class_id
       IN  IF PositiveIntegerField(slots)
             THEN /\ classes' = [classes EXCEPT ![id].available_slots = slots]
                  /\ requests' = [requests EXCEPT ![r].pc = "saved",
                                                  ![r].fitness_class = slots]
             ELSE /\ Fail(r, ERR_INTEGRITY)
                  /\ UNCHANGED classes
    /\ UNCHANGED <<clients, bookings, now, response, initial_slots>>

\* create, line 193: Booking.objects.create(fitness_class=..., client=...)
create_booking(r) ==
    /\ requests[r].pc = "saved"
    /\ bookings' = Append(bookings, [fitness_class |-> requests[r].class_id,
                                     client |-> requests[r].client])
    /\ requests' = [requests EXCEPT ![r].pc = "done",
                                    ![r].booking = Len(bookings) + 1]
    /\ UNCHANGED <<classes, clients, now, response, initial_slots>>

\* ------------------------------------------------------------- the views
NoResponse ==
    [view |-> "none", status |-> 0, has_email |-> FALSE, email |-> "",
     has_timezone |-> FALSE, timezone |-> "",
     time |-> 0, body |-> <<>>, start_time_local |-> <<>>]

\* POST create-class (CreateFitnessClass.perform_create): the serializer
\* rejects a negative available_slots, otherwise the row is inserted.
\* start_time is the request's value, timezone.now() when it gives none.
CreateFitnessClass(slots, start) ==
    /\ IF available_slots_is_valid(slots)
         THEN /\ classes' = Append(classes, [available_slots |-> slots,
                                             start_time |-> start])
              /\ initial_slots' = Append(initial_slots, slots)
              /\ response' = [NoResponse EXCEPT !.view = "create_class",
                                                !.status = 201,
                                                !.body = <<Len(classes) + 1>>]
         ELSE /\ response' = [NoResponse EXCEPT !.view = "create_class",
                                                !.status = 400]
              /\ UNCHANGED <<classes, initial_slots>>
    /\ UNCHANGED <<clients, bookings, requests, now>>

\* (variant for C10: start_time__gt)
UpcomingMut(current_time) ==
    {c \in DOMAIN classes : classes[c].start_time > current_time}

\* filter(start_time__gte=current_time)
Upcoming(current_time) ==
    {c \in DOMAIN classes : classes[c].start_time >= current_time}

\* order_by("start_time"): the rows of S in ascending start_time; the store
\* fixes no order among rows of equal start_time.
OrderedByStartTime(S) ==
    {s \in [1..Cardinality(S) -> S] :
        /\ \A c \in S : \E i \in DOMAIN s : s[i] = c
        /\ \A i, j \in DOMAIN s :
              i < j => classes[s[i]].start_time <= classes[s[j]].start_time}

\* the `timezone` query parameter: absent, blank, a zone pytz knows, or a
\* name it does not know
KnownTimezones == {"UTC", "Asia/Kolkata"}

TimezoneParams ==
    {[present |-> FALSE, value |-> ""]}
        \cup {[present |-> TRUE, value |-> z] :
                 z \in {"", "Asia/Kolkata", "Mars/Phobos"}}

\* timezone.get_default_timezone()
DefaultTimezone == "UTC"

\* pytz_timezone(tz_param) raises UnknownTimeZoneError for a name it does
\* not know; `if tz_param` sends an absent or blank one to the default.
UnknownTimeZoneError(param) ==
    param.present /\ param.value # "" /\ param.value \notin KnownTimezones

\* astimezone(tz): the zone's offset from UTC, in units of the clock
utcoffset(tz) == IF tz = "Asia/Kolkata" THEN 1 ELSE 0

\* strftime("%Z"): the zone's abbreviation
tzname(tz) == IF tz = "Asia/Kolkata" THEN "IST" ELSE "UTC"

\* FitnessClassSerializer.get_start_time_local, for a parameter pytz knows
get_start_time_local(start_time, param) ==
    LET tz == IF param.present /\ param.value # ""
                THEN param.value ELSE DefaultTimezone
    IN  [time |-> start_time + utcoffset(tz), zone |-> tzname(tz)]

\* GET /classes/ (FitnessClassList): get_queryset, then every row of it is
\* serialized; serializing a row resolves the timezone parameter, and an
\* unknown name raises out of the view (a server error).
FitnessClassList(param) ==
    /\ \E queryset \in OrderedByStartTime(Upcoming(now)) :
          response' =
            IF queryset # <<>> /\ UnknownTimeZoneError(param)
              THEN [NoResponse EXCEPT
                      !.view = "classes", !.status = 500, !.time = now,
                      !.has_timezone = param.present,
                      !.timezone = param.value]
              ELSE [NoResponse EXCEPT
                      !.view = "classes", !.status = 200, !.time = now,
                      !.has_timezone = param.present,
                      !.timezone = param.value,
                      !.body = queryset,
                      !.start_time_local =
                          [i \in DOMAIN queryset |->
                              get_start_time_local(
                                  classes[queryset[i]].start_time, param)]]
    /\ UNCHANGED <<classes, clients, bookings, requests, now, initial_slots>>

SetMax(S) == CHOOSE m \in S : \A x \in S : x <= m

SetMin(S) == CHOOSE m \in S : \A x \in S : m <= x

\* (variant for C9: order_by("id"))
RECURSIVE OrderedByIdAsc(_)
OrderedByIdAsc(S) ==
    IF S = {} THEN <<>>
    ELSE <<SetMin(S)>> \o OrderedByIdAsc(S \ {SetMin(S)})

\* order_by("-id")
RECURSIVE OrderedByIdDesc(_)
OrderedByIdDesc(S) ==
    IF S = {} THEN <<>>
    ELSE <<SetMax(S)>> \o OrderedByIdDesc(S \ {SetMax(S)})

\* filter(client__email=email)
BookingsOfEmail(email) ==
    {b \in DOMAIN bookings : clients[bookings[b].client].email = email}

\* the `email` query parameter: absent, blank, or an address
EmailParams ==
    {[present |-> FALSE, value |-> ""]}
        \cup {[present |-> TRUE, value |-> e] : e \in Emails \cup {""}}

\* GET /bookings/ (BookingListByEmail.get_queryset)
BookingListByEmail(param) ==
    /\ response' = [NoResponse EXCEPT
          !.view = "bookings", !.status = 200,
          !.has_email = param.present, !.email = param.value,
          !.body = IF ~param.present \/ param.value = ""
                     THEN <<>>
                     ELSE OrderedByIdDesc(BookingsOfEmail(param.value))]
    /\ UNCHANGED <<classes, clients, bookings, requests, now, initial_slots>>

\* the clock behind timezone.now()
Tick ==
    /\ now < MaxTime
    /\ now' = now + 1
    /\ UNCHANGED <<classes, clients, bookings, requests, response, initial_slots>>

\* --------------------------------------------------------- specification
Init ==
    /\ classes = <<>>
    /\ clients = <<>>
    /\ bookings = <<>>
    /\ requests = [r \in Requests |-> IdleRequest]
    /\ now = 0
    /\ response = NoResponse
    /\ initial_slots = <<>>

ClassIdInputs == 0..(MaxClasses + 1)

Book(r) ==
    \/ \E present \in BOOLEAN, name \in Names, email \in Emails :
          \E class_id \in (IF present THEN ClassIdInputs ELSE {0}) :
              validate(r, present, class_id, name, email)
    \/ create_get_class(r)
    \/ create_get_client(r)
    \/ create_insert_client(r)
    \/ create_save(r)
    \/ create_booking(r)

\* The write path: booking requests served concurrently, and class creation.
Next ==
    \/ \E r \in Requests : Book(r)
    \/ \E slots \in (-1)..MaxSlots :
          Len(classes) < MaxClasses /\ CreateFitnessClass(slots, now)

Spec == Init /\ [][Next]_vars

InFlight(r) == requests[r].pc \notin {"idle", "done", "failed"}

\* Bookings and their listing: booking requests served one at a time, with
\* listings at any point between their store calls.
NextBookings ==
    \/ \E r \in Requests :
          (\A q \in Requests \ {r} : ~InFlight(q)) /\ Book(r)
    \/ \E slots \in (-1)..MaxSlots :
          Len(classes) < MaxClasses /\ CreateFitnessClass(slots, now)
    \/ \E param \in EmailParams : BookingListByEmail(param)

SpecBookings == Init /\ [][NextBookings]_vars

\* The class catalogue and its listing as time passes.
NextClasses ==
    \/ \E slots \in (-1)..MaxSlots, start \in 0..MaxTime :
          Len(classes) < MaxListed /\ CreateFitnessClass(slots, start)
    \/ \E param \in TimezoneParams : FitnessClassList(param)
    \/ Tick

SpecClasses == Init /\ [][NextClasses]_vars

\* ------------------------------------------------------ claims C1 .. C4
Finished(r) == requests[r].pc \in {"done", "failed"}

Succeeded(r) == requests[r].pc = "done"

AllAgainst(c) ==
    \A r \in Requests :
        /\ Finished(r)
        /\ requests[r].has_class_id
        /\ requests[r].class_id = c
        /\ requests[r].error # ERR_NO_CLASS    \* c existed when r arrived

\* C1: when all the N >= 2 booking requests of a run were made against one
\* class created with exactly 1 slot, exactly one of them succeeds and every
\* other one fails with 'No slots available.'.
C1_OneSuccessOnLastSlot ==
    \A c \in DOMAIN classes :
        (initial_slots[c] = 1 /\ AllAgainst(c)) =>
            /\ Cardinality({r \in Requests : Succeeded(r)}) = 1
            /\ \A r \in Requests :
                  ~Succeeded(r) => requests[r].error = ERR_NO_SLOTS

\* C2: every FitnessClass has available_slots >= 0 in every reachable state.
C2_SlotsNeverNegative ==
    \A c \in DOMAIN classes : classes[c].available_slots >= 0

\* C2 witness: a request tried to save available_slots = -1 on a class whose
\* last slot another request had taken, and the store refused it.
C2_Witness ==
    \E r \in Requests :
        /\ requests[r].pc = "failed"
        /\ requests[r].error = ERR_INTEGRITY
        /\ classes[requests[r].class_id].available_slots = 0

SaveStep(r) == requests[r].pc = "have_client" /\ requests'[r].pc = "saved"

BookingStep(r) == requests[r].pc = "saved" /\ requests'[r].pc = "done"

\* C3: a booking request that succeeds leaves the stored available_slots of
\* its class exactly one less than it was before the request's decrement and
\* no other class changed, and it adds exactly one Booking, of its class and
\* of the Client that has its client_email.
C3_SuccessTakesOneSlot ==
    [][\A r \in Requests :
          /\ SaveStep(r) =>
                /\ Len(classes') = Len(classes)
                /\ \A c \in DOMAIN classes :
                      classes'[c].available_slots =
                          IF c = requests[r].class_id
                            THEN classes[c].available_slots - 1
                            ELSE classes[c].available_slots
          /\ BookingStep(r) =>
                /\ classes' = classes
                /\ \E b \in [fitness_class : {requests[r].class_id},
                             client : DOMAIN clients] :
                      /\ clients[b.client].email = requests[r].client_email
                      /\ bookings' = Append(bookings, b)]_vars

Arrives(r) == requests[r].pc = "idle" /\ requests'[r].pc # "idle"

\* C4: a booking request that arrives for an existing class whose
\* available_slots is 0 fails with 'No slots available.' and leaves the
\* Booking, Client and FitnessClass tables as they were.
C4_NoSlotsRejected ==
    [][\A r \in Requests :
          (/\ Arrives(r)
           /\ requests'[r].has_class_id
           /\ ClassExists(requests'[r].class_id)
           /\ classes[requests'[r].class_id].available_slots = 0) =>
                /\ requests'[r].pc = "failed"
                /\ requests'[r].error = ERR_NO_SLOTS
                /\ ~requests'[r].created
                /\ store' = store]_vars

\* C4 witness: a request was refused for want of slots on a full class.
C4_Witness ==
    \E r \in Requests :
        /\ requests[r].pc = "failed"
        /\ requests[r].error = ERR_NO_SLOTS
        /\ requests[r].class_id \in DOMAIN classes
        /\ classes[requests[r].class_id].available_slots = 0
        /\ bookings = <<>>

\* ------------------------------------------------------ claims C5 .. C8
HasClient(r) == requests[r].pc \in {"have_client", "saved", "done"}

\* C5: there is at most one Client per email; every request's Booking is
\* attached to the one Client that has the request's client_email; and the
\* name of a Client stays the client_name of the request that created it.
C5_OneClientPerEmail ==
    /\ \A i, j \in DOMAIN clients :
          clients[i].email = clients[j].email => i = j
    /\ \A r \in Requests :
          HasClient(r) =>
              /\ requests[r].client \in DOMAIN clients
              /\ clients[requests[r].client].email = requests[r].client_email
    /\ \A r \in Requests :
          Succeeded(r) =>
              /\ requests[r].booking \in DOMAIN bookings
              /\ bookings[requests[r].booking].client = requests[r].client
    /\ \A r \in Requests :
          requests[r].created =>
              clients[requests[r].client].name = requests[r].client_name

\* C5 witness: two bookings made with one email and two names are attached
\* to the same Client, which kept the first name.
C5_Witness ==
    \E r, q \in Requests :
        /\ Succeeded(r) /\ Succeeded(q)
        /\ requests[r].client_email = requests[q].client_email
        /\ requests[r].client_name # requests[q].client_name
        /\ requests[r].created
        /\ bookings[requests[q].booking].client = requests[r].client
        /\ clients[requests[r].client].name # requests[q].client_name

\* C6: a booking request that ended in failure has created no Client, has
\* saved no available_slots and has created no Booking.
C6_FailureLeavesNothing ==
    \A r \in Requests :
        requests[r].pc = "failed" =>
            /\ ~requests[r].created
            /\ requests[r].booking = 0
            /\ \A b \in DOMAIN bookings :
                  \E q \in Requests : Succeeded(q) /\ requests[q].booking = b

\* C7: a request without class_id fails with 'class_id is required.', one
\* whose class_id references no existing FitnessClass fails with 'Fitness
\* class does not exist.', and both leave the three tables unchanged.
C7_MissingThenNotFound ==
    [][\A r \in Requests :
          Arrives(r) =>
              /\ ~requests'[r].has_class_id =>
                    /\ requests'[r].pc = "failed"
                    /\ requests'[r].error = ERR_REQUIRED
                    /\ store' = store
              /\ (requests'[r].has_class_id
                     /\ ~ClassExists(requests'[r].class_id)) =>
                    /\ requests'[r].pc = "failed"
                    /\ requests'[r].error = ERR_NO_CLASS
                    /\ store' = store]_vars

\* C8: at the moment a request saves its decrement, the stored
\* available_slots of its class is greater than 0.
C8_BookedOnlyWithSlots ==
    [][\A r \in Requests :
          SaveStep(r) => classes[requests[r].class_id].available_slots > 0]_vars

\* ----------------------------------------------------- claims C9 .. C10
Listed(view) == response'.view = view /\ response' # response

IsEmail(has_email, email) == has_email /\ email # ""

\* C9: listing bookings by a non-blank email returns exactly the Bookings
\* whose Client has that email, by descending id; with no or a blank email
\* it returns the empty list; it is never an error and changes no table.
C9_BookingsOfEmailNewestFirst ==
    [][Listed("bookings") =>
          LET body == response'.body
              email == response'.email
          IN  /\ response'.status = 200
              /\ store' = store
              /\ IF IsEmail(response'.has_email, email)
                   THEN /\ {body[i] : i \in DOMAIN body} =
                             {b \in DOMAIN bookings :
                                 clients[bookings[b].client].email = email}
                        /\ \A i, j \in DOMAIN body : i < j => body[i] > body[j]
                   ELSE body = <<>>]_vars

\* C9 witness: a listing by email returned both bookings of that email,
\* the newer one first.
C9_Witness ==
    /\ response.view = "bookings"
    /\ response.body = <<2, 1>>
    /\ Len(bookings) = 2

\* C10: a listing of upcoming classes that returns returns exactly the
\* classes whose start_time is at or after the call time, each once, in
\* non-decreasing order of start_time, whatever their available_slots.
C10_UpcomingInOrder ==
    [][(Listed("classes") /\ response'.status = 200) =>
          LET body == response'.body
          IN  /\ response'.time = now
              /\ {body[i] : i \in DOMAIN body} =
                    {c \in DOMAIN classes : ~(classes[c].start_time < now)}
              /\ \A i, j \in DOMAIN body :
                    i < j => /\ body[i] # body[j]
                             /\ classes[body[i]].start_time
                                    <= classes[body[j]].start_time]_vars

\* C10 witness: a listing returned two classes, the first starting exactly
\* at the call time with no slots left, the second starting later.
C10_Witness ==
    /\ response.view = "classes"
    /\ response.status = 200
    /\ Len(response.body) = 2
    /\ classes[response.body[1]].start_time = response.time
    /\ classes[response.body[1]].available_slots = 0
    /\ classes[response.body[2]].start_time > response.time

\* ---------------------------------------------------- claims C11 .. C12
\* C11: a listing of upcoming classes with a timezone name that is not
\* known does not fail: it answers what a listing without the timezone
\* parameter answers, the same classes with start times in the default zone.
C11_UnknownTimezoneFallsBack ==
    [][(/\ Listed("classes")
        /\ response'.has_timezone
        /\ response'.timezone \notin KnownTimezones \cup {""}) =>
            /\ response'.status = 200
            /\ response'.body \in OrderedByStartTime(Upcoming(now))
            /\ response'.start_time_local =
                  [i \in DOMAIN response'.body |->
                      [time |-> classes[response'.body[i]].start_time,
                       zone |-> tzname(DefaultTimezone)]]]_vars

BookingsOfClass(c) == {b \in DOMAIN bookings : bookings[b].fitness_class = c}

\* C12: between requests (no booking request is between its first and its
\* last store call), every class has available_slots plus the number of its
\* Bookings equal to the available_slots it was created with, so that it
\* never has more Bookings than that.
C12_CapacityConserved ==
    (\A r \in Requests : ~InFlight(r)) =>
        \A c \in DOMAIN classes :
            /\ classes[c].available_slots + Cardinality(BookingsOfClass(c))
                  = initial_slots[c]
            /\ Cardinality(BookingsOfClass(c)) <= initial_slots[c]

====
